---------------------------- MODULE Spec2Model ----------------------------
(***************************************************************************)
(* Model of the smart-store ETL pipeline.                                  *)
(*   - prepare_sales_data.py : the four cleaning transforms and main()     *)
(*   - etl_to_dw.py          : the warehouse load run (load_data_to_db)    *)
(* Money amounts are fixed-point, in hundredths (Scale).  DataFrames are   *)
(* objects on a heap (frames), so that in-place mutation and aliasing are  *)
(* visible.                                                                *)
(***************************************************************************)
EXTENDS Integers, Sequences, FiniteSets, TLC

VARIABLES
    \* ---- preparation stage (prepare_sales_data.py) ----
    rawCsv,     \* text cells of data/raw/sales_data.csv
    frames,     \* heap of DataFrame objects: Seq of datasets
    df,         \* main()'s local variable df: an index into frames (0 = unset)
    ppc,        \* position of main()
    pass,       \* 1 = the run on the raw file, 2 = the transforms re-applied
    out1,       \* the frame main() saved at the end of pass 1
    prepared,   \* content of data/prepared/sales_prepared.csv
    \* ---- warehouse load stage (etl_to_dw.py) ----
    files,      \* the three prepared CSV files
    db,         \* committed content of smart_sales.db
    work,       \* content as seen by the open connection (db + open transaction)
    conn,       \* "unbound" | "open" | "closed"
    lpc,        \* position of load_data_to_db
    failedAt,   \* the step that raised in this run ("none" if none)
    reported,   \* the except clause printed the error
    escaped,    \* an exception propagated out of load_data_to_db
    exitStatus, \* process exit status of the stage (-1 while running)
    inserted,   \* insert stages completed in this run, in order
    envFault,   \* a step of this run failed for a reason outside the data
    prevLoad,   \* what the latest earlier successful run left in the warehouse
    runs        \* load runs started so far

prepVars == <<rawCsv, frames, df, ppc, pass, out1, prepared>>
loadVars == <<files, db, work, conn, lpc, failedAt, reported, escaped,
              exitStatus, inserted, envFault, prevLoad, runs>>
vars == <<prepVars, loadVars>>

----------------------------------------------------------------------------
(* Bounds *)
MaxRows == 2
MaxLoadRows == 2
MaxRuns == 2

----------------------------------------------------------------------------
(* Generic helpers *)
SeqsUpTo(S, n) == UNION {[1..k -> S] : k \in 0..n}

\* a DataFrame of the load stage; a prepared file that does not exist
Frame(cols, rows) == [cols |-> cols, rows |-> rows]
MissingFile == [present |-> FALSE, frame |-> Frame({}, <<>>)]
\* a table that does not exist; a database without tables
NoTable == [exists |-> FALSE, cols |-> {}, pk |-> "none", rows |-> <<>>]
NoTables == [customers |-> NoTable, products |-> NoTable, sales |-> NoTable]

----------------------------------------------------------------------------
(* Cells of a DataFrame column.  A SaleAmount cell is a number (float64),  *)
(* a string (object dtype) or NaN; other columns hold strings, NaNStr for  *)
(* a missing value.                                                        *)
Scale == 100
Num(v) == [t |-> "num", v |-> v, s |-> <<>>]
Str(s) == [t |-> "str", v |-> 0, s |-> s]
NaN == [t |-> "nan", v |-> 0, s |-> <<>>]
NaNStr == "NaN"

Digits == {"0", "1", "2", "3", "4", "5", "6", "7", "8", "9"}
DigitVal(c) ==
    CASE c = "0" -> 0 [] c = "1" -> 1 [] c = "2" -> 2 [] c = "3" -> 3
      [] c = "4" -> 4 [] c = "5" -> 5 [] c = "6" -> 6 [] c = "7" -> 7
      [] c = "8" -> 8 [] c = "9" -> 9

\* value of a digit string, most significant digit first
DecVal(ds) ==
    LET F[i \in 0..Len(ds)] ==
            IF i = 0 THEN 0 ELSE 10 * F[i - 1] + DigitVal(ds[i])
    IN F[Len(ds)]

\* the text of a decimal literal -> [ok, v], v in 1/Scale units; two
\* fractional digits are kept
ParseNumber(txt) ==
    LET neg  == Len(txt) > 0 /\ txt[1] = "-"
        body == IF neg THEN Tail(txt) ELSE txt
        dots == {i \in 1..Len(body) : body[i] = "."}
        dot  == IF dots = {} THEN Len(body) + 1
                ELSE CHOOSE i \in dots : \A j \in dots : i <= j
        ip   == SubSeq(body, 1, dot - 1)
        fp   == SubSeq(body, dot + 1, Len(body))
        ok   == /\ Len(ip) + Len(fp) >= 1
                /\ \A i \in 1..Len(ip) : ip[i] \in Digits
                /\ \A i \in 1..Len(fp) : fp[i] \in Digits
        f2   == SubSeq(fp \o <<"0", "0">>, 1, 2)
        mag  == IF ok THEN Scale * DecVal(ip) + DecVal(f2) ELSE 0
    IN [ok |-> ok, v |-> IF neg THEN 0 - mag ELSE mag]

\* pd.to_numeric(cell, errors='coerce')
to_numeric(cell) ==
    CASE cell.t = "num" -> cell
      [] cell.t = "nan" -> NaN
      [] cell.t = "str" ->
            IF ParseNumber(cell.s).ok THEN Num(ParseNumber(cell.s).v) ELSE NaN

\* pd.read_csv: an empty field is NaN; a column whose non-empty fields all
\* parse as numbers is numeric, any other column keeps its text
read_csv(csv) ==
    LET numeric == \A i \in 1..Len(csv) :
                       csv[i].SaleAmount = <<>> \/ ParseNumber(csv[i].SaleAmount).ok
        amount(txt) == IF txt = <<>> THEN NaN
                       ELSE IF numeric THEN Num(ParseNumber(txt).v)
                       ELSE Str(txt)
    IN [i \in 1..Len(csv) |->
            [idx |-> i - 1,
             TransactionID |-> csv[i].TransactionID,
             CampaignID |-> IF csv[i].CampaignID = "" THEN NaNStr
                            ELSE csv[i].CampaignID,
             SaleAmount |-> amount(csv[i].SaleAmount),
             SaleDate |-> csv[i].SaleDate]]

----------------------------------------------------------------------------
(* The cleaning transforms as functions on datasets *)

\* variant of drop_duplicates: keep='last'
drop_duplicates_keep_last(d) ==
    LET keep(i) == ~\E j \in (i + 1)..Len(d) :
                        d[j].TransactionID = d[i].TransactionID
        F[i \in 0..Len(d)] ==
            IF i = 0 THEN <<>>
            ELSE IF keep(i) THEN Append(F[i - 1], d[i]) ELSE F[i - 1]
    IN F[Len(d)]

\* df.drop_duplicates(subset=['TransactionID']): keep='first'
drop_duplicates(d) ==
    LET F[i \in 0..Len(d)] ==
            IF i = 0 THEN <<>>
            ELSE IF \E j \in 1..(i - 1) : d[j].TransactionID = d[i].TransactionID
                 THEN F[i - 1]
                 ELSE Append(F[i - 1], d[i])
    IN F[Len(d)]

\* df.dropna(subset=['CampaignID'])
IsPresentCampaign(r) == r.CampaignID # NaNStr
dropna_CampaignID(d) == SelectSeq(d, IsPresentCampaign)

\* df['SaleAmount'] = pd.to_numeric(df['SaleAmount'], errors='coerce')
coerce_SaleAmount(d) ==
    [i \in 1..Len(d) |-> [d[i] EXCEPT !.SaleAmount = to_numeric(d[i].SaleAmount)]]

\* df.dropna(subset=['SaleAmount'])
IsPresentAmount(r) == r.SaleAmount.t # "nan"
dropna_SaleAmount(d) == SelectSeq(d, IsPresentAmount)

\* variant of filter_SaleAmount: the threshold is the smallest amount of
\* the frame instead of the fixed bound: df[df.SaleAmount > df.SaleAmount.min()]
filter_above_minimum(d) ==
    SelectSeq(d, LAMBDA r : \E i \in 1..Len(d) : r.SaleAmount.v > d[i].SaleAmount.v)

\* df[df['SaleAmount'] > 1]
LowerBound == 1
AboveBound(r) == r.SaleAmount.t = "num" /\ r.SaleAmount.v > LowerBound * Scale
filter_SaleAmount(d) == SelectSeq(d, AboveBound)

\* df['SaleDate'] = '5/4/25'
DateLiteral == "5/4/25"
set_SaleDate(d) == [i \in 1..Len(d) |-> [d[i] EXCEPT !.SaleDate = DateLiteral]]

----------------------------------------------------------------------------
(* Raw inputs of the preparation stage *)
TransactionIDs == {1, 2, 3}
CampaignTexts == {"", "C1"}
AmountTexts == {<<>>, <<"a", "b", "c">>, <<"-", "5">>, <<"1">>,
                <<"1", ".", "0", "1">>}
RawDates == {"1/2/24"}

CsvRows == [TransactionID : TransactionIDs, CampaignID : CampaignTexts,
            SaleAmount : AmountTexts, SaleDate : RawDates]

\* five rows: one repeats an earlier TransactionID, another one has no
\* CampaignID, a third one has SaleAmount -5; everything else is valid
ScenarioCsv ==
    {[i \in 1..5 |->
        [TransactionID |-> IF i = dup THEN first ELSE i,
         CampaignID |-> IF i = nul THEN "" ELSE "C1",
         SaleAmount |-> IF i = neg THEN <<"-", "5">>
                        ELSE IF i % 2 = 0 THEN <<"2">> ELSE <<"1", ".", "0", "1">>,
         SaleDate |-> "1/2/24"]] :
        <<dup, first, nul, neg>> \in
            {q \in (2..5) \X (1..4) \X (1..5) \X (1..5) :
                q[2] < q[1] /\ q[3] # q[1] /\ q[4] # q[1] /\ q[3] # q[4]}}

RawCsvFiles == SeqsUpTo(CsvRows, MaxRows) \cup ScenarioCsv

----------------------------------------------------------------------------
(* The preparation run: main() of prepare_sales_data.py.  Each transform   *)
(* is one step; it reads the object df refers to, may overwrite it, may    *)
(* allocate new objects, and leaves its return value in df.                *)
Transforms == {"dedup", "missing", "outliers", "format"}

\* DataFrame.to_csv(index=False): the rows without the index
to_csv(d) ==
    [i \in 1..Len(d) |->
        [TransactionID |-> d[i].TransactionID, CampaignID |-> d[i].CampaignID,
         SaleAmount |-> d[i].SaleAmount, SaleDate |-> d[i].SaleDate]]

NoFile == <<"no file">>

PrepInit ==
    /\ rawCsv \in RawCsvFiles
    /\ frames = <<>>
    /\ df = 0
    /\ ppc = "read"
    /\ pass = 1
    /\ out1 = <<>>
    /\ prepared = NoFile
    \* the load stage is not running
    /\ files = [customers |-> MissingFile, products |-> MissingFile,
                sales |-> MissingFile]
    /\ db = NoTables
    /\ work = NoTables
    /\ conn = "unbound"
    /\ lpc = "idle"
    /\ failedAt = "none"
    /\ reported = FALSE
    /\ escaped = FALSE
    /\ exitStatus = -1
    /\ inserted = <<>>
    /\ envFault = FALSE
    /\ prevLoad = [some |-> FALSE, db |-> NoTables]
    /\ runs = 0

\* main, lines 196-200: read_raw_data is called twice, df keeps the second
ReadRawData ==
    /\ ppc = "read"
    /\ frames' = <<read_csv(rawCsv), read_csv(rawCsv)>>
    /\ df' = 2
    /\ ppc' = "dedup"
    /\ UNCHANGED <<rawCsv, pass, out1, prepared>>
    /\ UNCHANGED loadVars

\* remove_duplicates: drop_duplicates returns a new object
RemoveDuplicates ==
    /\ ppc = "dedup"
    /\ frames' = Append(frames, drop_duplicates(frames[df]))
    /\ df' = Len(frames) + 1
    /\ ppc' = "missing"
    /\ UNCHANGED <<rawCsv, pass, out1, prepared>>
    /\ UNCHANGED loadVars

\* handle_missing_values: dropna(..., inplace=True) on the argument, which
\* is returned
HandleMissingValues ==
    /\ ppc = "missing"
    /\ frames' = [frames EXCEPT ![df] = dropna_CampaignID(frames[df])]
    /\ df' = df
    /\ ppc' = "outliers"
    /\ UNCHANGED <<rawCsv, pass, out1, prepared>>
    /\ UNCHANGED loadVars

\* remove_outliers: the column assignment writes into the argument; dropna
\* and the boolean filter each return a new object
RemoveOutliers ==
    /\ ppc = "outliers"
    /\ LET coerced  == coerce_SaleAmount(frames[df])
           nonNull  == dropna_SaleAmount(coerced)
           filtered == filter_SaleAmount(nonNull)
       IN /\ frames' = [frames EXCEPT ![df] = coerced] \o <<nonNull, filtered>>
          /\ df' = Len(frames) + 2
    /\ ppc' = "format"
    /\ UNCHANGED <<rawCsv, pass, out1, prepared>>
    /\ UNCHANGED loadVars

\* standardize_formats: the column assignment writes into the argument,
\* which is returned
StandardizeFormats ==
    /\ ppc = "format"
    /\ frames' = [frames EXCEPT ![df] = set_SaleDate(frames[df])]
    /\ df' = df
    /\ ppc' = "save"
    /\ UNCHANGED <<rawCsv, pass, out1, prepared>>
    /\ UNCHANGED loadVars

\* save_prepared_data
SavePreparedData ==
    /\ ppc = "save"
    /\ prepared' = to_csv(frames[df])
    /\ out1' = IF pass = 1 THEN frames[df] ELSE out1
    /\ ppc' = "done"
    /\ UNCHANGED <<rawCsv, frames, df, pass>>
    /\ UNCHANGED loadVars

\* the four transforms applied once more, to the frame they produced
Reapply ==
    /\ ppc = "done"
    /\ pass = 1
    /\ pass' = 2
    /\ ppc' = "dedup"
    /\ UNCHANGED <<rawCsv, frames, df, out1, prepared>>
    /\ UNCHANGED loadVars

PrepNext ==
    \/ ReadRawData
    \/ RemoveDuplicates
    \/ HandleMissingValues
    \/ RemoveOutliers
    \/ StandardizeFormats
    \/ SavePreparedData
    \/ Reapply

----------------------------------------------------------------------------
(* Warehouse load stage: etl_to_dw.py.  A DataFrame is [cols, rows]; a     *)
(* table is [exists, cols, pk, rows]; every cell is a string.              *)
TableNames == {"customers", "products", "sales"}
NULL == "NULL"

\* the tables of create_schema's script
CustomersDDL ==
    [exists |-> TRUE, pk |-> "customer_id", rows |-> <<>>,
     cols |-> {"customer_id", "name", "region", "join_date", "age",
               "subscription_status"}]
ProductsDDL ==
    [exists |-> TRUE, pk |-> "product_id", rows |-> <<>>,
     cols |-> {"product_id", "product_name", "category", "unit_price",
               "manufacture_year", "availability_status"}]
SalesDDL ==
    [exists |-> TRUE, pk |-> "sale_id", rows |-> <<>>,
     cols |-> {"sale_id", "date", "customer_id", "product_id", "store_id",
               "campaign_id", "quantity", "sales_amount"}]

\* CREATE TABLE IF NOT EXISTS
CreateIfNotExists(t, ddl) == IF t.exists THEN t ELSE ddl

create_schema(d) ==
    [customers |-> CreateIfNotExists(d.customers, CustomersDDL),
     products |-> CreateIfNotExists(d.products, ProductsDDL),
     sales |-> CreateIfNotExists(d.sales, SalesDDL)]

\* variant of delete_existing_records: the tables are left in place
delete_existing_records_keep(d) == d

\* DROP TABLE IF EXISTS sales, customers, products
delete_existing_records(d) ==
    [customers |-> NoTable, products |-> NoTable, sales |-> NoTable]

\* the column maps of the three insert functions
CustomersRename ==
    [CustomerID |-> "customer_id", Name |-> "name", Region |-> "region",
     JoinDate |-> "join_date", Age |-> "age",
     SubscriptionStatus |-> "subscription_status"]
ProductsRename ==
    [productid |-> "product_id", productname |-> "product_name",
     category |-> "category", unitprice |-> "unit_price",
     manufactureyear |-> "manufacture_year",
     availabilitystatus |-> "availability_status"]
\* variant of SalesRename: SaleDate is mapped to the column name of the
\* declared sales table, "date"
SalesRename_declared_date ==
    [TransactionID |-> "sale_id", SaleDate |-> "date",
     CustomerID |-> "customer_id", ProductID |-> "product_id",
     StoreID |-> "store_id", CampaignID |-> "campaign_id",
     SaleAmount |-> "sales_amount", DiscountAmount |-> "discount_amount",
     State |-> "state"]
SalesRename ==
    [TransactionID |-> "sale_id", SaleDate |-> "sale_date",
     CustomerID |-> "customer_id", ProductID |-> "product_id",
     StoreID |-> "store_id", CampaignID |-> "campaign_id",
     SaleAmount |-> "sales_amount", DiscountAmount |-> "discount_amount",
     State |-> "state"]
ProductsColumns ==
    {"product_id", "product_name", "category", "unit_price",
     "manufacture_year", "availability_status"}
SalesColumns ==
    {"sale_id", "sale_date", "customer_id", "product_id", "store_id",
     "campaign_id", "sales_amount", "discount_amount", "state"}

\* DataFrame.rename(columns=m): names that m does not list are kept
NewName(m, k) == IF k \in DOMAIN m THEN m[k] ELSE k
rename(f, m) ==
    LET newCols == {NewName(m, k) : k \in f.cols}
        old(c)  == CHOOSE k \in f.cols : NewName(m, k) = c
    IN [cols |-> newCols,
        rows |-> [i \in 1..Len(f.rows) |-> [c \in newCols |-> f.rows[i][old(c)]]]]

\* df[[...]]: KeyError when a listed column is absent
select(f, cs) ==
    IF cs \subseteq f.cols
    THEN [ok |-> TRUE,
          frame |-> [cols |-> cs,
                     rows |-> [i \in 1..Len(f.rows) |-> [c \in cs |-> f.rows[i][c]]]]]
    ELSE [ok |-> FALSE, frame |-> f]

\* DataFrame.to_sql(name, con, if_exists="append", index=False) on table t:
\* a missing table is created from the frame's columns, without a key; the
\* rows are inserted in one transaction, which pandas commits, or rolls
\* back when a statement fails
KeysUnique(rows, pk) ==
    \A i, j \in 1..Len(rows) : rows[i][pk] = rows[j][pk] => i = j
to_sql(t, f) ==
    LET target == IF t.exists THEN t
                  ELSE [exists |-> TRUE, cols |-> f.cols, pk |-> "none",
                        rows |-> <<>>]
        padded == [i \in 1..Len(f.rows) |->
                      [c \in target.cols |->
                          IF c \in f.cols THEN f.rows[i][c] ELSE NULL]]
        all    == target.rows \o padded
    IN IF ~(f.cols \subseteq target.cols) THEN [ok |-> FALSE, table |-> target]
       ELSE IF target.pk # "none" /\ ~KeysUnique(all, target.pk)
            THEN [ok |-> FALSE, table |-> target]
            ELSE [ok |-> TRUE, table |-> [target EXCEPT !.rows = all]]

insert_customers(t, f) == to_sql(t, rename(f, CustomersRename))

insert_products(t, f) ==
    LET sel == select(rename(f, ProductsRename), ProductsColumns)
    IN IF sel.ok THEN to_sql(t, sel.frame) ELSE [ok |-> FALSE, table |-> t]

insert_sales(t, f) ==
    LET sel == select(rename(f, SalesRename), SalesColumns)
    IN IF sel.ok THEN to_sql(t, sel.frame) ELSE [ok |-> FALSE, table |-> t]

----------------------------------------------------------------------------
(* Prepared CSV files read by the load run *)
CustomerIds == {"c1", "c2"}

CustomerRow(id, name) ==
    [CustomerID |-> id, Name |-> name, Region |-> "East", JoinDate |-> "1/1/20",
     Age |-> "30", SubscriptionStatus |-> "Active"]
ProductRow(id, name) ==
    [productid |-> id, productname |-> name, category |-> "toys",
     unitprice |-> "9.5", manufactureyear |-> "2020",
     availabilitystatus |-> "yes"]
SaleRow(id, cust, prod, store) ==
    [TransactionID |-> id, SaleDate |-> DateLiteral, CustomerID |-> cust,
     ProductID |-> prod, StoreID |-> store, CampaignID |-> "C1",
     SaleAmount |-> "2.0", DiscountAmount |-> "0", State |-> "NSW"]

Without(f, dropped) ==
    [cols |-> f.cols \ dropped,
     rows |-> [i \in 1..Len(f.rows) |-> [c \in f.cols \ dropped |-> f.rows[i][c]]]]

CsvFile(f) == [present |-> TRUE, frame |-> f]

CustomersFrame(ids, name) ==
    Frame(DOMAIN CustomersRename, [i \in 1..Len(ids) |-> CustomerRow(ids[i], name)])
ProductsFrame(ids, name) ==
    Frame(DOMAIN ProductsRename, [i \in 1..Len(ids) |-> ProductRow(ids[i], name)])
\* TransactionIDs of a prepared sales file are distinct (remove_duplicates)
SaleIds == <<"1", "2", "3", "4">>
SalesFrame(custs, store) ==
    Frame(DOMAIN SalesRename,
          [i \in 1..Len(custs) |-> SaleRow(SaleIds[i], custs[i], "p1", store)])

CustomersFiles ==
    {MissingFile} \cup
    {CsvFile(CustomersFrame(ids, "new")) : ids \in SeqsUpTo(CustomerIds, MaxLoadRows)}
ProductsFiles ==
    {MissingFile,
     CsvFile(ProductsFrame(<<>>, "new")),
     CsvFile(ProductsFrame(<<"p1">>, "new")),
     CsvFile(Without(ProductsFrame(<<"p1">>, "new"), {"availabilitystatus"}))}
SalesFiles ==
    {MissingFile,
     CsvFile(Without(SalesFrame(<<"c1">>, "s-new"), {"DiscountAmount", "State"}))}
    \cup
    {CsvFile(SalesFrame(custs, "s-new")) : custs \in SeqsUpTo(CustomerIds, MaxLoadRows)}

\* the warehouse an earlier successful run on older files has left
OldDb ==
    [customers |-> insert_customers(NoTable, CustomersFrame(<<"c1">>, "old")).table,
     products |-> insert_products(NoTable, ProductsFrame(<<"p1">>, "old")).table,
     sales |-> insert_sales(NoTable, SalesFrame(<<"c1">>, "s-old")).table]

----------------------------------------------------------------------------
(* The load run: load_data_to_db.  A step either completes or raises; a    *)
(* raise inside the try block transfers to the except clause.  Steps that  *)
(* touch the file system or the database can also fail for reasons outside *)
(* the data (\E ok).                                                       *)
LoadInit ==
    /\ files \in [customers : CustomersFiles, products : ProductsFiles,
                  sales : SalesFiles]
    /\ db \in {NoTables, OldDb}
    /\ work = db
    /\ conn = "unbound"
    /\ lpc = "mkdir"
    /\ failedAt = "none"
    /\ reported = FALSE
    /\ escaped = FALSE
    /\ exitStatus = -1
    /\ inserted = <<>>
    /\ envFault = FALSE
    /\ prevLoad = [some |-> FALSE, db |-> NoTables]
    /\ runs = 1
    \* the preparation stage is not running
    /\ rawCsv = <<>>
    /\ frames = <<>>
    /\ df = 0
    /\ ppc = "idle"
    /\ pass = 1
    /\ out1 = <<>>
    /\ prepared = NoFile

Raise(step) ==
    /\ lpc' = "except"
    /\ failedAt' = step

\* DW_DIR.mkdir(parents=True, exist_ok=True)
MakeDir ==
    /\ lpc = "mkdir"
    /\ \E ok \in BOOLEAN :
          /\ envFault' = (envFault \/ ~ok)
          /\ IF ok THEN lpc' = "connect" /\ failedAt' = failedAt
             ELSE Raise("mkdir")
    /\ UNCHANGED <<files, db, work, conn, reported, escaped, exitStatus,
                   inserted, prevLoad, runs>>
    /\ UNCHANGED prepVars

\* conn = sqlite3.connect(DB_PATH); cursor = conn.cursor()
Connect ==
    /\ lpc = "connect"
    /\ \E ok \in BOOLEAN :
          /\ envFault' = (envFault \/ ~ok)
          /\ IF ok THEN /\ conn' = "open"
                        /\ work' = db
                        /\ lpc' = "create"
                        /\ failedAt' = failedAt
             ELSE Raise("connect") /\ UNCHANGED <<conn, work>>
    /\ UNCHANGED <<files, db, reported, escaped, exitStatus, inserted,
                   prevLoad, runs>>
    /\ UNCHANGED prepVars

\* create_schema(cursor): executescript runs outside a transaction, each
\* statement takes effect at once
CreateSchema ==
    /\ lpc = "create"
    /\ \E ok \in BOOLEAN :
          /\ envFault' = (envFault \/ ~ok)
          /\ IF ok THEN /\ work' = create_schema(work)
                        /\ db' = work'
                        /\ lpc' = "drop"
                        /\ failedAt' = failedAt
             ELSE Raise("create_schema") /\ UNCHANGED <<db, work>>
    /\ UNCHANGED <<files, conn, reported, escaped, exitStatus, inserted,
                   prevLoad, runs>>
    /\ UNCHANGED prepVars

\* delete_existing_records(cursor): DDL, no transaction is open
DeleteExistingRecords ==
    /\ lpc = "drop"
    /\ \E ok \in BOOLEAN :
          /\ envFault' = (envFault \/ ~ok)
          /\ IF ok THEN /\ work' = delete_existing_records(work)
                        /\ db' = work'
                        /\ lpc' = "read"
                        /\ failedAt' = failedAt
             ELSE Raise("delete_existing_records") /\ UNCHANGED <<db, work>>
    /\ UNCHANGED <<files, conn, reported, escaped, exitStatus, inserted,
                   prevLoad, runs>>
    /\ UNCHANGED prepVars

\* the three pd.read_csv calls: FileNotFoundError on a missing file
ReadPreparedCsv ==
    /\ lpc = "read"
    /\ IF \A n \in TableNames : files[n].present
       THEN lpc' = "insert_customers" /\ failedAt' = failedAt
       ELSE Raise("read_csv")
    /\ UNCHANGED <<files, db, work, conn, reported, escaped, exitStatus,
                   inserted, envFault, prevLoad, runs>>
    /\ UNCHANGED prepVars

\* one insert stage: to_sql ends its transaction itself (commit, or rollback
\* on error); a table to_sql created stays created
InsertStage(name, res, next) ==
    /\ lpc = name
    /\ \E ok \in BOOLEAN :
          /\ envFault' = (envFault \/ ~ok)
          /\ IF ok /\ res.ok
             THEN /\ work' = [work EXCEPT ![next.table] = res.table]
                  /\ db' = work'
                  /\ inserted' = Append(inserted, next.table)
                  /\ lpc' = next.pc
                  /\ failedAt' = failedAt
             ELSE /\ db' = [db EXCEPT ![next.table] =
                               IF ok THEN res.table ELSE db[next.table]]
                  /\ work' = db'
                  /\ inserted' = inserted
                  /\ Raise(name)
    /\ UNCHANGED <<files, conn, reported, escaped, exitStatus, prevLoad, runs>>
    /\ UNCHANGED prepVars

InsertCustomers ==
    InsertStage("insert_customers",
                insert_customers(work.customers, files.customers.frame),
                [table |-> "customers", pc |-> "insert_products"])

InsertProducts ==
    InsertStage("insert_products",
                insert_products(work.products, files.products.frame),
                [table |-> "products", pc |-> "insert_sales"])

InsertSales ==
    InsertStage("insert_sales",
                insert_sales(work.sales, files.sales.frame),
                [table |-> "sales", pc |-> "commit"])

\* conn.commit()
Commit ==
    /\ lpc = "commit"
    /\ \E ok \in BOOLEAN :
          /\ envFault' = (envFault \/ ~ok)
          /\ IF ok THEN db' = work /\ lpc' = "finally" /\ failedAt' = failedAt
             ELSE Raise("commit") /\ db' = db
    /\ UNCHANGED <<files, work, conn, reported, escaped, exitStatus, inserted,
                   prevLoad, runs>>
    /\ UNCHANGED prepVars

\* except Exception as e: print(f"Error loading data: {e}")
Except ==
    /\ lpc = "except"
    /\ reported' = TRUE
    /\ lpc' = "finally"
    /\ UNCHANGED <<files, db, work, conn, failedAt, escaped, exitStatus,
                   inserted, envFault, prevLoad, runs>>
    /\ UNCHANGED prepVars

\* finally: if conn: conn.close().  conn is a local that is bound only by
\* the assignment in Connect: reading it unbound raises UnboundLocalError,
\* which leaves the function.  close() discards an open transaction.  The
\* process ends 0 when the function returns, 1 on an uncaught exception.
Finally ==
    /\ lpc = "finally"
    /\ IF conn = "unbound"
       THEN escaped' = TRUE /\ UNCHANGED <<conn, work>>
       ELSE escaped' = FALSE /\ conn' = "closed" /\ work' = db
    /\ exitStatus' = IF escaped' THEN 1 ELSE 0
    /\ lpc' = "done"
    /\ UNCHANGED <<files, db, failedAt, reported, inserted, envFault,
                   prevLoad, runs>>
    /\ UNCHANGED prepVars

\* the stage is run again on the same prepared files
NextRun ==
    /\ lpc = "done"
    /\ runs < MaxRuns
    /\ runs' = runs + 1
    /\ lpc' = "mkdir"
    /\ conn' = "unbound"
    /\ failedAt' = "none"
    /\ reported' = FALSE
    /\ escaped' = FALSE
    /\ exitStatus' = -1
    /\ inserted' = <<>>
    /\ envFault' = FALSE
    /\ prevLoad' = IF failedAt = "none" THEN [some |-> TRUE, db |-> db]
                   ELSE prevLoad
    /\ UNCHANGED <<files, db, work>>
    /\ UNCHANGED prepVars

LoadNext ==
    \/ MakeDir
    \/ Connect
    \/ CreateSchema
    \/ DeleteExistingRecords
    \/ ReadPreparedCsv
    \/ InsertCustomers
    \/ InsertProducts
    \/ InsertSales
    \/ Commit
    \/ Except
    \/ Finally
    \/ NextRun

----------------------------------------------------------------------------
(* Specifications: each stage is a batch job of its own *)
PrepSpec == PrepInit /\ [][PrepNext]_vars

LoadSpec == LoadInit /\ [][LoadNext]_vars
----------------------------------------------------------------------------
(* Properties of the preparation stage *)

\* row i of the raw file is the first with its TransactionID, has a
\* CampaignID, and its SaleAmount is a number above the bound
IsFirstOccurrence(i) ==
    \A j \in 1..(i - 1) : rawCsv[j].TransactionID # rawCsv[i].TransactionID
IsValidRaw(i) ==
    /\ rawCsv[i].CampaignID # ""
    /\ ParseNumber(rawCsv[i].SaleAmount).ok
    /\ ParseNumber(rawCsv[i].SaleAmount).v > LowerBound * Scale
KeepRaw(i) == IsFirstOccurrence(i) /\ IsValidRaw(i)

\* C5: the prepared output of a run is exactly the raw rows that are the
\* first occurrence of their TransactionID, have a CampaignID and a numeric
\* SaleAmount above 1, in their original order, each with SaleDate set to the
\* literal; the five-row scenario (one duplicate, one missing CampaignID,
\* one SaleAmount of -5, on three different rows) leaves two rows.
C5_PreparedIsFirstValidRows ==
    (pass = 1 /\ ppc = "done") =>
        /\ \A k \in 1..Len(out1) :
              LET i == out1[k].idx + 1
              IN /\ i \in 1..Len(rawCsv)
                 /\ KeepRaw(i)
                 /\ out1[k].TransactionID = rawCsv[i].TransactionID
                 /\ out1[k].CampaignID = rawCsv[i].CampaignID
                 /\ out1[k].SaleAmount = Num(ParseNumber(rawCsv[i].SaleAmount).v)
                 /\ out1[k].SaleDate = DateLiteral
        /\ \A i \in 1..Len(rawCsv) :
              KeepRaw(i) => \E k \in 1..Len(out1) : out1[k].idx = i - 1
        /\ \A k, l \in 1..Len(out1) : k < l => out1[k].idx < out1[l].idx
        /\ Len(prepared) = Len(out1)
        /\ \A k \in 1..Len(out1) :
              /\ prepared[k].TransactionID = out1[k].TransactionID
              /\ prepared[k].CampaignID = out1[k].CampaignID
              /\ prepared[k].SaleAmount = out1[k].SaleAmount
              /\ prepared[k].SaleDate = DateLiteral
        /\ rawCsv \in ScenarioCsv => Len(prepared) = 2

\* a finished run on a five-row scenario file in which the first row of a
\* repeated TransactionID has no CampaignID and the later one is valid: the
\* TransactionID is absent from the two rows written
C5_Witness ==
    /\ pass = 1 /\ ppc = "done"
    /\ rawCsv \in ScenarioCsv
    /\ Len(prepared) = 2
    /\ \E i, j \in 1..Len(rawCsv) :
          /\ i < j
          /\ rawCsv[i].TransactionID = rawCsv[j].TransactionID
          /\ rawCsv[i].CampaignID = ""
          /\ IsValidRaw(j)
          /\ \A k \in 1..Len(prepared) :
                prepared[k].TransactionID # rawCsv[j].TransactionID

\* C6: the four transforms applied to the frame they produced remove no row
\* and leave it equal to what it was.
C6_PipelineIdempotent ==
    (pass = 2 /\ ppc \in {"save", "done"}) =>
        /\ frames[df] = out1
        /\ (ppc = "done" => prepared = to_csv(out1))

\* the second application finished on an output of two or more rows that the
\* first application had reduced
C6_Witness ==
    /\ pass = 2 /\ ppc = "done"
    /\ Len(out1) >= 2
    /\ Len(rawCsv) > Len(out1)
    /\ \E k, l \in 1..Len(out1) : out1[k].SaleAmount # out1[l].SaleAmount

\* C9: a transform leaves the dataset passed to it unchanged: after the call
\* the object the caller passed has the rows and values it had before.
C9_TransformLeavesInputUnchanged ==
    [][(ppc \in Transforms /\ pass = 1) => frames'[df] = frames[df]]_vars

----------------------------------------------------------------------------
(* Properties of the load stage *)
Declared == [customers |-> CustomersDDL, products |-> ProductsDDL,
             sales |-> SalesDDL]
InsertSteps == {"insert_customers", "insert_products", "insert_sales"}
RunEnded == lpc = "done"
RunSucceeded == lpc = "done" /\ failedAt = "none"

\* C1: when the first insert of a run starts, the three tables exist with
\* the declared schema and are empty.
C1_DeclaredEmptyTablesBeforeInsert ==
    lpc = "insert_customers" =>
        \A n \in TableNames : work[n] = Declared[n] /\ db[n] = Declared[n]

\* C2: when an insert stage raised, the warehouse holds no row that an
\* earlier insert stage of the same run inserted (stated for the runs in
\* which the stage raised on the data it was given).
C2_NoPartialCommit ==
    (RunEnded /\ failedAt \in InsertSteps /\ ~envFault) =>
        \A k \in 1..Len(inserted) : db[inserted[k]].rows = <<>>

\* C3: whichever step fails, the error is reported, no exception leaves
\* load_data_to_db, and a connection that was opened is closed on return.
C3_AllFailuresCaught ==
    RunEnded =>
        /\ failedAt # "none" => reported
        /\ ~escaped
        /\ conn # "open"

\* C4: the exit status is success exactly when every step up to and
\* including the commit succeeded.
C4_ExitStatusReflectsOutcome ==
    RunEnded => (exitStatus = 0 <=> failedAt = "none")

\* C7: after a run that succeeded each table holds exactly the rows of its
\* prepared file, none from an earlier run, and a run that follows a
\* successful run on the same files leaves the same warehouse.
C7_SuccessfulLoadReplacesContents ==
    RunSucceeded =>
        /\ Len(db.customers.rows) = Len(files.customers.frame.rows)
        /\ \A i \in 1..Len(db.customers.rows) :
              LET r == db.customers.rows[i]
                  f == files.customers.frame.rows[i]
              IN r.customer_id = f.CustomerID /\ r.name = f.Name
        /\ Len(db.products.rows) = Len(files.products.frame.rows)
        /\ \A i \in 1..Len(db.products.rows) :
              LET r == db.products.rows[i]
                  f == files.products.frame.rows[i]
              IN r.product_id = f.productid /\ r.product_name = f.productname
        /\ Len(db.sales.rows) = Len(files.sales.frame.rows)
        /\ \A i \in 1..Len(db.sales.rows) :
              LET r == db.sales.rows[i]
                  f == files.sales.frame.rows[i]
              IN /\ r.sale_id = f.TransactionID
                 /\ r.customer_id = f.CustomerID
                 /\ r.store_id = f.StoreID
        /\ prevLoad.some => db = prevLoad.db

\* a second run succeeded after a successful first run that had replaced
\* the rows of an older warehouse with the rows of non-empty files
C7_Witness ==
    /\ RunSucceeded
    /\ runs = 2
    /\ prevLoad.some
    /\ Len(db.customers.rows) >= 2
    /\ Len(db.sales.rows) >= 1
    /\ \A i \in 1..Len(db.customers.rows) : db.customers.rows[i].name = "new"
    /\ \A i \in 1..Len(db.sales.rows) : db.sales.rows[i].store_id = "s-new"

\* the prepared files carry the source columns of the column maps
WellFormedFiles ==
    /\ \A n \in TableNames : files[n].present
    /\ DOMAIN CustomersRename \subseteq files.customers.frame.cols
    /\ DOMAIN ProductsRename \subseteq files.products.frame.cols
    /\ DOMAIN SalesRename \subseteq files.sales.frame.cols
\* a sales row whose customer and product are rows of the other two files
References(s) ==
    /\ \E i \in 1..Len(files.customers.frame.rows) :
          files.customers.frame.rows[i].CustomerID = s.CustomerID
    /\ \E i \in 1..Len(files.products.frame.rows) :
          files.products.frame.rows[i].productid = s.ProductID
\* table row r is file row s under the warehouse column names
IsMappedSale(r, s) ==
    /\ DOMAIN r = SalesColumns
    /\ r.sale_id = s.TransactionID /\ r.sale_date = s.SaleDate
    /\ r.customer_id = s.CustomerID /\ r.product_id = s.ProductID
    /\ r.store_id = s.StoreID /\ r.campaign_id = s.CampaignID
    /\ r.sales_amount = s.SaleAmount /\ r.discount_amount = s.DiscountAmount
    /\ r.state = s.State

C10_KeysUnique ==
    RunSucceeded =>
        /\ db.customers.exists => KeysUnique(db.customers.rows, "customer_id")
        /\ db.products.exists => KeysUnique(db.products.rows, "product_id")
        /\ db.sales.exists => KeysUnique(db.sales.rows, "sale_id")

=============================================================================
